---------------------------- MODULE Spec2Model ----------------------------
(***************************************************************************)
(* A model of pdftoexcel.py: the header normaliser, the column             *)
(* deduplicator, the table aligner, the row sanitiser and the conversion   *)
(* run convert_pdf_to_excel that groups the page tables of a PDF by their  *)
(* normalised header and exports them as one combined sheet.               *)
(*                                                                         *)
(* A Python string is a sequence of one-character strings ("id" is         *)
(* <<"i","d">>, '' is <<>>); None and NaN are the one-element sequences    *)
(* <<"None">> and <<"NaN">>, which no Python string of the model equals.   *)
(* A DataFrame is a record [columns, rows]: the column labels in order and *)
(* the rows in order, every row as long as columns.                        *)
(***************************************************************************)
EXTENDS Integers, Sequences, FiniteSets, TLC

VARIABLES
    pdf_path,           \* argument: the source path (its extension)
    excel_path,         \* argument: the destination path (directory, extension)
    pc,                 \* position in convert_pdf_to_excel
    outcome,            \* what the caller gets: "running", "raised", "returned"
    error,              \* the exception that left the function, or "none"
    dialog,             \* the message box shown, or "none"
    opened,             \* the source PDF has been opened
    created,            \* the dict tables_by_header exists
    page_num,           \* pages whose extract_tables() has been called
    tables_by_header,   \* the dict, in insertion order: <<[key, df, src]>>
    examined,           \* history: every table the loop body has examined
    written,            \* a spreadsheet has been written to excel_path
    sheet,              \* the DataFrame written, as a one-element sequence
    exportError,        \* history: the exception the export phase caught, or "none"
    fn,                 \* the pure function under test, or "none"
    fn_in,              \* its input
    fn_out,             \* its result, as a one-element sequence
    fn_done             \* it has been applied

vars == <<pdf_path, excel_path, pc, outcome, error, dialog, opened, created,
          page_num, tables_by_header, examined, written, sheet, exportError,
          fn, fn_in, fn_out, fn_done>>

convVars == <<pdf_path, excel_path, pc, outcome, error, dialog, opened, created,
              page_num, tables_by_header, examined, written, sheet, exportError>>

fnVars == <<fn, fn_in, fn_out, fn_done>>

---------------------------------------------------------------------------
(* Bounds *)

MaxTables == 3      \* tables examined in one run
MaxPages == 2       \* pages of the PDF
MaxCols == 3        \* column names given to the deduplicator and the aligner
MaxRows == 2        \* rows of a table given to the aligner and the sanitiser
MaxWidth == 2       \* columns of a table given to the sanitiser

---------------------------------------------------------------------------
(* Values *)

None == <<"None">>
NaN == <<"NaN">>

IsNA(c) == c = None \/ c = NaN

Range(s) == {s[i] : i \in DOMAIN s}

IsUnique(s) == \A i, j \in DOMAIN s : s[i] = s[j] => i = j

RECURSIVE Flatten(_)
Flatten(ss) == IF ss = <<>> THEN <<>> ELSE Head(ss) \o Flatten(Tail(ss))

Upper == <<"A","B","C","D","E","F","G","H","I","J","K","L","M",
           "N","O","P","Q","R","S","T","U","V","W","X","Y","Z">>
Lower == <<"a","b","c","d","e","f","g","h","i","j","k","l","m",
           "n","o","p","q","r","s","t","u","v","w","x","y","z">>

Whitespace == {" ", "\n", "\t"}

\* the lower-case letter of every upper-case letter
LowerOf == [c \in {Upper[i] : i \in DOMAIN Upper} |->
               Lower[CHOOSE i \in DOMAIN Upper : Upper[i] = c]]

\* str.lower() on one character
LowerChar(c) == IF c \in DOMAIN LowerOf THEN LowerOf[c] ELSE c

\* str.lower()
StrLower(s) == [i \in DOMAIN s |-> LowerChar(s[i])]

\* str.strip(): leading and trailing whitespace removed
RECURSIVE LStrip(_)
LStrip(s) == IF s # <<>> /\ Head(s) \in Whitespace THEN LStrip(Tail(s)) ELSE s

RECURSIVE RStrip(_)
RStrip(s) ==
    IF s # <<>> /\ s[Len(s)] \in Whitespace
    THEN RStrip(SubSeq(s, 1, Len(s) - 1))
    ELSE s

StrStrip(s) == RStrip(LStrip(s))

\* str.replace("\n", " ")
ReplaceNewline(s) == [i \in DOMAIN s |-> IF s[i] = "\n" THEN " " ELSE s[i]]

Digits == <<"0","1","2","3","4","5","6","7","8","9">>

\* str(n) of a natural number
RECURSIVE IntToStr(_)
IntToStr(n) ==
    IF n < 10 THEN <<Digits[n + 1]>>
    ELSE IntToStr(n \div 10) \o <<Digits[(n % 10) + 1]>>

\* Python truthiness of a header cell: None and '' are falsy
Truthy(col) == col # None /\ col # <<>>

---------------------------------------------------------------------------
(* normalize_header *)

NormalizeCell(col) ==
    IF Truthy(col) THEN ReplaceNewline(StrLower(StrStrip(col))) ELSE <<>>

normalize_header(header) ==
    IF header = <<>> THEN <<>>
    ELSE [i \in DOMAIN header |-> NormalizeCell(header[i])]

---------------------------------------------------------------------------
(* ensure_unique_columns *)

\* the loop body from index i on; seen maps a name to its count of repeats
RECURSIVE EnsureUniqueFrom(_, _, _)
EnsureUniqueFrom(columns, i, seen) ==
    IF i > Len(columns) THEN columns
    ELSE LET col == columns[i] IN
         IF col \in DOMAIN seen
         THEN LET n == seen[col] + 1 IN
              EnsureUniqueFrom(
                  [columns EXCEPT ![i] = col \o <<"_">> \o IntToStr(n)],
                  i + 1,
                  [seen EXCEPT ![col] = n])
         ELSE EnsureUniqueFrom(columns, i + 1, seen @@ (col :> 0))

ensure_unique_columns(columns) ==
    EnsureUniqueFrom(columns, 1, [x \in {} |-> 0])

---------------------------------------------------------------------------
(* DataFrame operations of pandas that the program uses *)

\* df[col] = value, for a label not yet among the columns: a new last column
AddColumn(df, col, value) ==
    [columns |-> Append(df.columns, col),
     rows |-> [r \in DOMAIN df.rows |-> Append(df.rows[r], value)]]

\* the positions of label in columns, in order
RECURSIVE PositionsFrom(_, _, _)
PositionsFrom(columns, label, i) ==
    IF i > Len(columns) THEN <<>>
    ELSE (IF columns[i] = label THEN <<i>> ELSE <<>>)
         \o PositionsFrom(columns, label, i + 1)

\* df[labels]: for every label in turn, every column of df that bears it
SelectColumns(df, labels) ==
    LET pos == Flatten([k \in DOMAIN labels |->
                           PositionsFrom(df.columns, labels[k], 1)])
    IN  [columns |-> [p \in DOMAIN pos |-> df.columns[pos[p]]],
         rows |-> [r \in DOMAIN df.rows |->
                      [p \in DOMAIN pos |-> df.rows[r][pos[p]]]]]

\* the labels of all frames, each once, in order of first appearance
RECURSIVE UniqueLabels(_, _)
UniqueLabels(labels, acc) ==
    IF labels = <<>> THEN acc
    ELSE UniqueLabels(Tail(labels),
                      IF Head(labels) \in Range(acc) THEN acc
                      ELSE Append(acc, Head(labels)))

\* a frame's rows under the unique labels cols; a column it lacks is NaN
Reindex(df, cols) ==
    [r \in DOMAIN df.rows |->
        [c \in DOMAIN cols |->
            IF cols[c] \in Range(df.columns)
            THEN df.rows[r][CHOOSE p \in DOMAIN df.columns :
                                df.columns[p] = cols[c]]
            ELSE NaN]]

\* pd.concat(frames, ignore_index=True) of a non-empty list of frames.  Frames
\* with the same labels are stacked as they are.  Otherwise the result has the
\* union of the labels, and a frame whose labels repeat cannot be reindexed
\* to it: InvalidIndexError.
Concat(frames) ==
    IF \A k \in DOMAIN frames : frames[k].columns = frames[1].columns
    THEN [ok |-> TRUE,
          df |-> [columns |-> frames[1].columns,
                  rows |-> Flatten([k \in DOMAIN frames |-> frames[k].rows])]]
    ELSE IF \E k \in DOMAIN frames : ~IsUnique(frames[k].columns)
    THEN [ok |-> FALSE, df |-> frames[1]]
    ELSE LET cols == UniqueLabels(
                         Flatten([k \in DOMAIN frames |-> frames[k].columns]),
                         <<>>)
         IN  [ok |-> TRUE,
              df |-> [columns |-> cols,
                      rows |-> Flatten([k \in DOMAIN frames |->
                                           Reindex(frames[k], cols)])]]

---------------------------------------------------------------------------
(* process_dataframe, clean_and_align_dataframe, remove_blank_rows *)

process_dataframe(df) ==
    [df EXCEPT !.columns = ensure_unique_columns(normalize_header(df.columns))]

\* lines 63-65: every column of combined_df that df lacks is added with ''
RECURSIVE AddMissing(_, _)
AddMissing(df, cols) ==
    IF cols = <<>> THEN df
    ELSE AddMissing(IF Head(cols) \in Range(df.columns) THEN df
                    ELSE AddColumn(df, Head(cols), <<>>),
                    Tail(cols))

clean_and_align_dataframe(df, combined_df) ==
    LET renamed == [df EXCEPT !.columns =
                       ensure_unique_columns(normalize_header(df.columns))]
        filled == AddMissing(renamed, combined_df.columns)
    IN  SelectColumns(filled, combined_df.columns)

\* dropna(how='any') in the place of how='all'
NotAnyNA(row) == \A c \in DOMAIN row : ~IsNA(row[c])

\* df.dropna(how='all'): a row is dropped when every cell is None or NaN
NotAllNA(row) == \E c \in DOMAIN row : ~IsNA(row[c])

\* df.iloc[:, 0].notna() & (df.iloc[:, 0] != '')
FirstPopulated(row) == ~IsNA(row[1]) /\ row[1] # <<>>

remove_blank_rows(df) ==
    LET dropped == SelectSeq(df.rows, NotAllNA)
    IN  [df EXCEPT !.rows = SelectSeq(dropped, FirstPopulated)]

---------------------------------------------------------------------------
(* convert_pdf_to_excel: its arguments and the tables a page can yield *)

\* the extension str.endswith tests, and os.path.dirname of the destination
PdfPaths == {[ext |-> e] : e \in {".pdf", ".PDF", ".txt"}}

ExcelPaths == {[dir |-> d, ext |-> e] : d \in {"", "/out", "/ro"},
                                        e \in {".xlsx", ".xls"}}

\* the directories for which os.access(dir, os.W_OK) answers True
WritableDirs == {"/out"}

sa == <<"a">>
sa_1 == <<"a", "_", "1">>
sb == <<"b">>
sx == <<"x">>
sID == <<"I", "D">>
sName == <<"N", "a", "m", "e">>
sname == <<"n", "a", "m", "e">>
sAge == <<"A", "g", "e">>
sage == <<"a", "g", "e">>
sExtra == <<"E", "x", "t", "r", "a">>
sUnitPrice == <<" ", "U", "n", "i", "t", "\n", "P", "r", "i", "c", "e", " ">>
s1 == <<"1">>
s2 == <<"2">>
s3 == <<"3">>

\* what page.extract_tables() can yield: a table is its rows, the first of
\* which is the candidate header
Tables == {
    << <<sName, sAge>>, <<s1, s2>> >>,
    << <<sname, sage>>, <<s3, <<>>>>, <<<<>>, s1>> >>,
    << <<sID, sName>>, <<s1, s2>> >>,
    << <<sID, sName, sExtra>>, <<s1, s2, s3>> >>,
    << <<sUnitPrice, None>>, <<None, None>>, <<s2, None>> >>,
    << <<sa, sa, sa_1>>, <<s1, s2, s3>> >>,
    << <<sID, sName>>, <<s1, s2, s3>> >>,
    << <<sID, sName>>, <<s1, s2>>, <<s3>> >>,
    << <<<<>>, None, <<" ", "\n">>>>, <<s1, s2, s3>> >>,
    << <<sID, sName>> >>,
    << <<>>, <<s1, s2>> >>,
    <<>>
}

---------------------------------------------------------------------------
(* convert_pdf_to_excel: the steps *)

\* the checks of the two paths without the os.access check
PreconditionErrorNoAccess(pdf, excel) ==
    IF pdf.ext # ".pdf" THEN "ValueError"
    ELSE IF excel.ext # ".xlsx" THEN "ValueError"
    ELSE "none"

\* lines 110-120: the exception the checks of the two paths raise, or "none"
PreconditionError(pdf, excel) ==
    IF pdf.ext # ".pdf" THEN "ValueError"
    ELSE IF excel.ext # ".xlsx" THEN "ValueError"
    ELSE IF excel.dir \notin WritableDirs THEN "PermissionError"
    ELSE "none"

\* len(table) > 0 in the place of len(table) > 1
TableValidAnyRows(table) ==
    /\ table # <<>>
    /\ Len(table) > 0
    /\ table[1] # None /\ table[1] # <<>>

\* line 133: table and len(table) > 1 and table[0]
TableValid(table) ==
    /\ table # <<>>
    /\ Len(table) > 1
    /\ table[1] # None /\ table[1] # <<>>

\* line 137: any(header)
AnyHeader(header) == \E i \in DOMAIN header : header[i] # <<>>

Max(S) == CHOOSE m \in S : \A n \in S : n <= m

\* line 138: pd.DataFrame(data, columns=columns) of a list of rows.  Short
\* rows are filled with None up to the longest row; the longest row must be
\* as long as columns, otherwise ValueError.
NewDataFrame(data, columns) ==
    LET width == IF data = <<>> THEN Len(columns)
                 ELSE Max({Len(data[r]) : r \in DOMAIN data})
    IN  IF width # Len(columns)
        THEN [ok |-> FALSE, df |-> [columns |-> columns, rows |-> <<>>]]
        ELSE [ok |-> TRUE,
              df |-> [columns |-> columns,
                      rows |-> [r \in DOMAIN data |->
                                   [c \in 1..width |->
                                       IF c <= Len(data[r]) THEN data[r][c]
                                       ELSE None]]]]

\* a lookup that compares the keys by their length alone
LookupByLength(tbh, header_tuple) ==
    IF \E k \in DOMAIN tbh : Len(tbh[k].key) = Len(header_tuple)
    THEN CHOOSE k \in DOMAIN tbh : Len(tbh[k].key) = Len(header_tuple)
    ELSE 0

\* line 146: the place of header_tuple among the keys of the dict, or 0
Lookup(tbh, header_tuple) ==
    IF \E k \in DOMAIN tbh : tbh[k].key = header_tuple
    THEN CHOOSE k \in DOMAIN tbh : tbh[k].key = header_tuple
    ELSE 0

\* lines 133-158: the loop body on one table, the n-th examined.  The result
\* is the exception that leaves the function, or "none", and the dict.
ProcessTable(tbh, table, n) ==
    IF ~TableValid(table) THEN [error |-> "none", tbh |-> tbh]
    ELSE
    LET header == normalize_header(table[1])
        header_tuple == header
    IN  IF ~AnyHeader(header) THEN [error |-> "none", tbh |-> tbh]
        ELSE
        LET new == NewDataFrame(Tail(table), header) IN
        IF ~new.ok THEN [error |-> "ValueError", tbh |-> tbh]
        ELSE
        LET df == process_dataframe(new.df)
            k == Lookup(tbh, header_tuple)
        IN  IF k # 0
            THEN LET aligned == clean_and_align_dataframe(df, tbh[k].df)
                     both == Concat(<<tbh[k].df, aligned>>)
                 IN  IF ~both.ok
                     THEN [error |-> "InvalidIndexError", tbh |-> tbh]
                     ELSE [error |-> "none",
                           tbh |-> [tbh EXCEPT
                                       ![k].df = both.df,
                                       ![k].src = Append(@, n)]]
            ELSE [error |-> "none",
                  tbh |-> Append(tbh, [key |-> header_tuple, df |-> df,
                                       src |-> <<n>>])]

\* lines 163-168: every group sanitised, then all of them concatenated
FinalTable(tbh) ==
    Concat([k \in DOMAIN tbh |-> remove_blank_rows(tbh[k].df)])

Raise(e) ==
    /\ pc' = "done"
    /\ outcome' = "raised"
    /\ error' = e

\* lines 110-120
CheckPaths ==
    /\ pc = "start"
    /\ IF PreconditionError(pdf_path, excel_path) # "none"
       THEN Raise(PreconditionError(pdf_path, excel_path))
       ELSE pc' = "open" /\ UNCHANGED <<outcome, error>>
    /\ UNCHANGED <<pdf_path, excel_path, dialog, opened, created, page_num,
                   tables_by_header, examined, written, sheet, exportError>>
    /\ UNCHANGED fnVars

\* lines 123-129: PdfReader(pdf_path), the empty dict, pdfplumber.open.  An
\* unreadable document makes either of the two readers raise.
OpenPdf ==
    /\ pc = "open"
    /\ opened' = TRUE
    /\ \E fails \in {"none", "PdfReader", "pdfplumber"} :
          /\ created' = (fails # "PdfReader")
          /\ IF fails = "none"
             THEN pc' = "loop" /\ UNCHANGED <<outcome, error>>
             ELSE Raise(IF fails = "PdfReader" THEN "PdfReadError"
                        ELSE "PDFSyntaxError")
    /\ UNCHANGED <<pdf_path, excel_path, dialog, page_num, tables_by_header,
                   examined, written, sheet, exportError>>
    /\ UNCHANGED fnVars

\* lines 130-131: the next page's extract_tables()
NextPage ==
    /\ pc = "loop"
    /\ page_num < MaxPages
    /\ page_num' = page_num + 1
    /\ UNCHANGED <<pdf_path, excel_path, pc, outcome, error, dialog, opened,
                   created, tables_by_header, examined, written, sheet,
                   exportError>>
    /\ UNCHANGED fnVars

\* lines 132-158: the next table of the current page
ExamineTable ==
    /\ pc = "loop"
    /\ page_num > 0
    /\ Len(examined) < MaxTables
    /\ \E table \in Tables :
          LET res == ProcessTable(tables_by_header, table, Len(examined) + 1)
          IN  /\ examined' = Append(examined, table)
              /\ tables_by_header' = res.tbh
              /\ IF res.error # "none"
                 THEN Raise(res.error)
                 ELSE UNCHANGED <<pc, outcome, error>>
    /\ UNCHANGED <<pdf_path, excel_path, dialog, opened, created, page_num,
                   written, sheet, exportError>>
    /\ UNCHANGED fnVars

\* line 130: no page is left
EndPages ==
    /\ pc = "loop"
    /\ pc' = "export"
    /\ UNCHANGED <<pdf_path, excel_path, outcome, error, dialog, opened,
                   created, page_num, tables_by_header, examined, written,
                   sheet, exportError>>
    /\ UNCHANGED fnVars

\* lines 160-201: the export.  Whatever the try block raises is caught, logged
\* and shown in a message box, and the function returns.  A failed write may
\* leave a file behind: ExcelWriter saves on leaving its with block.
Export ==
    /\ pc = "export"
    /\ pc' = "done"
    /\ outcome' = "returned"
    /\ IF tables_by_header # <<>>
       THEN LET final == FinalTable(tables_by_header) IN
            IF ~final.ok
            THEN /\ dialog' = "Error"
                 /\ exportError' = "InvalidIndexError"
                 /\ UNCHANGED <<written, sheet>>
            ELSE \E writes \in BOOLEAN :
                    IF writes
                    THEN /\ dialog' = "Success"
                         /\ written' = TRUE
                         /\ sheet' = <<final.df>>
                         /\ UNCHANGED exportError
                    ELSE /\ dialog' = "Error"
                         /\ exportError' = "OSError"
                         /\ written' \in BOOLEAN
                         /\ UNCHANGED sheet
       ELSE /\ dialog' = "No Tables Found"
            /\ UNCHANGED <<written, sheet, exportError>>
    /\ UNCHANGED <<pdf_path, excel_path, error, opened, created, page_num,
                   tables_by_header, examined>>
    /\ UNCHANGED fnVars

Init ==
    /\ pdf_path \in PdfPaths
    /\ excel_path \in ExcelPaths
    /\ pc = "start"
    /\ outcome = "running"
    /\ error = "none"
    /\ dialog = "none"
    /\ opened = FALSE
    /\ created = FALSE
    /\ page_num = 0
    /\ tables_by_header = <<>>
    /\ examined = <<>>
    /\ written = FALSE
    /\ sheet = <<>>
    /\ exportError = "none"
    /\ fn = "none"
    /\ fn_in = <<>>
    /\ fn_out = <<>>
    /\ fn_done = FALSE

Next == CheckPaths \/ OpenPdf \/ NextPage \/ ExamineTable \/ EndPages \/ Export

Spec == Init /\ [][Next]_vars

---------------------------------------------------------------------------
(* The pure functions applied to bounded inputs *)

\* the column names given to the deduplicator
Names == {sa, sa_1, sb}

ColSeqs == UNION {[1..n -> Names] : n \in 1..MaxCols}

\* the cells of a data row: None, '', whitespace and text
Cells == {None, <<>>, <<" ">>, sx}

\* the labels of a DataFrame that process_dataframe has built
ProcessedCols == {ensure_unique_columns(normalize_header(h)) : h \in ColSeqs}

\* n rows under w columns whose cells all differ: "1", "2", ...
NumberedRows(n, w) ==
    [r \in 1..n |-> [c \in 1..w |-> IntToStr((r - 1) * w + c)]]

GenericCols(w) == [c \in 1..w |-> <<"c">> \o IntToStr(c)]

\* the conversion's variables, at rest
ConvIdle ==
    /\ pdf_path = [ext |-> ".pdf"]
    /\ excel_path = [dir |-> "/out", ext |-> ".xlsx"]
    /\ pc = "start"
    /\ outcome = "running"
    /\ error = "none"
    /\ dialog = "none"
    /\ opened = FALSE
    /\ created = FALSE
    /\ page_num = 0
    /\ tables_by_header = <<>>
    /\ examined = <<>>
    /\ written = FALSE
    /\ sheet = <<>>
    /\ exportError = "none"

FnInit ==
    /\ ConvIdle
    /\ fn_out = <<>>
    /\ fn_done = FALSE
    /\ \/ /\ fn = "dedup"
          /\ \E h \in ColSeqs : fn_in = [columns |-> h]
       \/ /\ fn = "align"
          /\ \E c \in ProcessedCols, ref \in ProcessedCols, n \in 0..MaxRows :
                fn_in = [df |-> [columns |-> c,
                                 rows |-> NumberedRows(n, Len(c))],
                         combined_df |-> [columns |-> ref, rows |-> <<>>]]
       \/ /\ fn = "sanitize"
          /\ \E w \in 1..MaxWidth, n \in 0..MaxRows :
                \E rs \in [1..n -> [1..w -> Cells]] :
                   fn_in = [df |-> [columns |-> GenericCols(w), rows |-> rs]]

ApplyEnsureUnique ==
    /\ fn = "dedup" /\ ~fn_done
    /\ fn_out' = <<ensure_unique_columns(fn_in.columns)>>
    /\ fn_done' = TRUE
    /\ UNCHANGED <<fn, fn_in>>
    /\ UNCHANGED convVars

ApplyAlign ==
    /\ fn = "align" /\ ~fn_done
    /\ fn_out' = <<clean_and_align_dataframe(fn_in.df, fn_in.combined_df)>>
    /\ fn_done' = TRUE
    /\ UNCHANGED <<fn, fn_in>>
    /\ UNCHANGED convVars

ApplyRemoveBlank ==
    /\ fn = "sanitize" /\ ~fn_done
    /\ fn_out' = <<remove_blank_rows(fn_in.df)>>
    /\ fn_done' = TRUE
    /\ UNCHANGED <<fn, fn_in>>
    /\ UNCHANGED convVars

FnNext == ApplyEnsureUnique \/ ApplyAlign \/ ApplyRemoveBlank

SpecFn == FnInit /\ [][FnNext]_vars

---------------------------------------------------------------------------
(* Claims about the pure functions, under SpecFn *)

\* a cell that is empty or null
IsEmptyCell(c) == IsNA(c) \/ c = <<>>

AllEmpty(row) == \A c \in DOMAIN row : IsEmptyCell(row[c])

\* C7: for every input sequence of column names, ensure_unique_columns
\* returns a sequence of the same length whose names are pairwise distinct.
C7_DedupUnique ==
    (fn = "dedup" /\ fn_done) =>
        /\ Len(fn_out[1]) = Len(fn_in.columns)
        /\ IsUnique(fn_out[1])

\* C8: clean_and_align_dataframe returns a table with exactly the
\* reference's columns in the reference's order and the candidate's rows in
\* order; a column absent from the candidate holds '' in every row, and a
\* candidate column is dropped only when the reference lacks it.
C8_AlignTotal ==
    (fn = "align" /\ fn_done) =>
        LET cand == fn_in.df
            ref == fn_in.combined_df.columns
            out == fn_out[1]
        IN  /\ out.columns = ref
            /\ Len(out.rows) = Len(cand.rows)
            /\ \A r \in DOMAIN out.rows : Len(out.rows[r]) = Len(ref)
            /\ \A c \in DOMAIN ref :
                   ref[c] \notin Range(cand.columns) =>
                       \A r \in DOMAIN out.rows : out.rows[r][c] = <<>>
            /\ \A p \in DOMAIN cand.columns :
                   cand.columns[p] \in Range(ref) =>
                       \E c \in DOMAIN ref :
                           /\ ref[c] = cand.columns[p]
                           /\ \A r \in DOMAIN cand.rows :
                                  out.rows[r][c] = cand.rows[r][p]

\* the rows the claim keeps: not entirely empty, and column 0 populated
ClaimKept(row) == ~(AllEmpty(row) \/ IsEmptyCell(row[1]))

\* C9: remove_blank_rows returns exactly the rows, in order, that are not
\* removed, a row being removed if and only if all of its cells are
\* empty/null or its column-0 cell is empty/null.
C9_SanitizeExact ==
    (fn = "sanitize" /\ fn_done) =>
        /\ fn_out[1].columns = fn_in.df.columns
        /\ fn_out[1].rows = SelectSeq(fn_in.df.rows, ClaimKept)

\* a row with column 0 populated and the rest empty is kept, a row with
\* column 0 empty and the rest populated is removed
C9_Witness ==
    /\ fn = "sanitize" /\ fn_done
    /\ fn_in.df.rows = << <<sx, None>>, <<<<>>, sx>> >>
    /\ fn_out[1].rows = << <<sx, None>> >>

---------------------------------------------------------------------------
(* Claims about the conversion run, under Spec *)

\* the arguments violate a precondition: a wrong extension, or a destination
\* directory that is not writable
BadArguments ==
    \/ pdf_path.ext # ".pdf"
    \/ excel_path.ext # ".xlsx"
    \/ excel_path.dir \notin WritableDirs

\* C1: with a wrong extension or an unwritable destination directory the run
\* ends in a raised error before the PDF is opened or a page is read: no
\* table is examined, the dict is never created and nothing is written.
C1_FailFast ==
    BadArguments =>
        /\ pc \in {"start", "done"}
        /\ pc = "done" => outcome = "raised" /\ error # "none"
        /\ ~opened /\ ~created /\ page_num = 0
        /\ examined = <<>> /\ tables_by_header = <<>>
        /\ ~written /\ sheet = <<>> /\ dialog = "none"

C1_Witness ==
    /\ pdf_path.ext = ".pdf" /\ excel_path.ext = ".xlsx"
    /\ excel_path.dir = "/ro"
    /\ pc = "done" /\ error = "PermissionError"

\* C2: when writing the spreadsheet fails in the export phase, the run ends
\* in a failure delivered to the caller (raised), never in a normal return.
C2_ExportFailureRaised ==
    (pc = "done" /\ exportError = "OSError") => outcome = "raised"

\* a table the claims call rejected: fewer than 2 rows, an empty or absent
\* first row, or a normalised header whose entries are all ''
ClaimRejected(table) ==
    \/ Len(table) < 2
    \/ table[1] = <<>> \/ table[1] = None
    \/ LET header == normalize_header(table[1])
       IN  \A i \in DOMAIN header : header[i] = <<>>

AllRejected == \A i \in DOMAIN examined : ClaimRejected(examined[i])

\* the page loop has been entered
LoopEntered ==
    \/ pc \in {"loop", "export"}
    \/ pc = "done" /\ created /\ error # "PDFSyntaxError"

\* C3: when every table examined is rejected, the dict stays empty, the run
\* does not raise, and once all pages are processed it returns with the
\* "No Tables Found" outcome and nothing written.
C3_AllRejectedNoTables ==
    (LoopEntered /\ AllRejected) =>
        /\ tables_by_header = <<>>
        /\ outcome # "raised" /\ error = "none"
        /\ ~written /\ sheet = <<>>
        /\ pc = "done" => outcome = "returned" /\ dialog = "No Tables Found"

C3_Witness ==
    /\ pc = "done" /\ dialog = "No Tables Found"
    /\ Len(examined) >= 2
    /\ examined[1] = << <<<<>>, None, <<" ", "\n">>>>, <<s1, s2, s3>> >>
    /\ examined[2] = << <<sID, sName>> >>

\* the tables that have contributed to a group
Contributed == UNION {Range(tables_by_header[k].src) : k \in DOMAIN tables_by_header}

\* equal length and equal element for element
SameSignature(h1, h2) ==
    /\ Len(h1) = Len(h2)
    /\ \A i \in DOMAIN h1 : h1[i] = h2[i]

\* C4: two tables have contributed to the same AccumulatedTable if and only
\* if their normalised headers have the same length and are equal element
\* for element; the number of groups is the number of distinct normalised
\* headers of the tables accepted; every table accepted has contributed to
\* one group, but for a last one at which the run raised.
C4_SignatureExact ==
    LET n == Len(examined)
        normalized == [i \in 1..n |->
                          IF examined[i] = <<>> THEN <<>>
                          ELSE normalize_header(examined[i][1])]
        groups == [i \in 1..n |->
                      {k \in DOMAIN tables_by_header :
                          i \in Range(tables_by_header[k].src)}]
        contributed == {i \in 1..n : groups[i] # {}}
    IN  /\ Contributed = contributed
        /\ \A i \in contributed : Cardinality(groups[i]) = 1
        /\ \A i, j \in contributed :
               (groups[i] = groups[j]) <=>
                   SameSignature(normalized[i], normalized[j])
        /\ Len(tables_by_header) =
               Cardinality({normalized[i] : i \in contributed})
        /\ \A i \in 1..n :
               (i \in contributed) <=>
                   /\ ~ClaimRejected(examined[i])
                   /\ ~(outcome = "raised" /\ i = n)

\* ["Name","Age"] and ["name","age"] share a group, ["ID","Name"] and
\* ["ID","Name","Extra"] have one each
C4_Witness ==
    /\ Len(examined) = 3
    /\ examined[1] = << <<sName, sAge>>, <<s1, s2>> >>
    /\ examined[2] = << <<sID, sName>>, <<s1, s2>> >>
    /\ examined[3] = << <<sname, sage>>, <<s3, <<>>>>, <<<<>>, s1>> >>
    /\ Len(tables_by_header) = 2
    /\ tables_by_header[1].src = <<1, 3>>

\* the data rows of a table: all rows after the header, as the DataFrame
\* built from them holds them
DataRows(table) ==
    NewDataFrame(Tail(table), normalize_header(table[1])).df.rows

\* C5: when all pages are processed, the rows of each AccumulatedTable are
\* the concatenation, in processing order, of the data rows of every table
\* that contributed to it.
C5_RowsConcatenated ==
    pc = "export" =>
        \A k \in DOMAIN tables_by_header :
            tables_by_header[k].df.rows =
                Flatten([m \in DOMAIN tables_by_header[k].src |->
                            DataRows(examined[tables_by_header[k].src[m]])])

\* C6: the combined sheet written holds no row that is entirely empty and
\* no row whose cell in the sheet's first column is empty or null.
C6_NoBlankRowInOutput ==
    sheet # <<>> =>
        \A r \in DOMAIN sheet[1].rows :
            /\ ~AllEmpty(sheet[1].rows[r])
            /\ ~IsEmptyCell(sheet[1].rows[r][1])

\* a table with a data row whose cell count differs from the header's
RaggedRows(table) ==
    /\ Len(table) >= 2
    /\ \E r \in 2..Len(table) : Len(table[r]) # Len(table[1])

ProblemTable(table) == ClaimRejected(table) \/ RaggedRows(table)

\* C10: examining a problem table never aborts the run: the dict is left
\* as it was and the loop goes on.
C10_ProblemTableSkipped ==
    [][(examined' # examined /\ ProblemTable(examined'[Len(examined')])) =>
          /\ tables_by_header' = tables_by_header
          /\ outcome' = "running"
          /\ pc' = "loop"]_vars

===========================================================================
